---- MODULE Spec2Model ----
(***************************************************************************)
(* timpris2influx (src/main.go): one run of the command.  main executes    *)
(* the cobra root command, whose Run function visits the price page with a *)
(* colly collector.  The OnHTML("canvas") callback is called once for      *)
(* every canvas element of the page, in document order; it decodes the     *)
(* element's data-labels and data-datasets attributes, opens the InfluxDB  *)
(* client and (when MariaDSN is set) the MariaDB handle and statement,     *)
(* inserts one row per point while it builds the batch, and writes the     *)
(* batch to InfluxDB.                                                      *)
(*                                                                         *)
(* Prices are float64 in the source; here a price is an integer number of  *)
(* thousandths, so int(price*100) is a truncating division by ten.  An     *)
(* instant is a number of hours in local time (the location is taken to    *)
(* have a fixed offset), a date is a number of days.                       *)
(***************************************************************************)
EXTENDS Integers, Sequences, FiniteSets, TLC

\* ------------------------------------------------------------- bounds
MaxCanvas == 2      \* canvas elements on a fetched page
MaxLen    == 2      \* labels and values of a short chart
MaxOver   == 1      \* values beyond a full day in a long chart
Today     == 19844  \* the date time.Now() reports (2024-05-01)

HoursPerDay == 24   \* time.Date normalises an hour outside 0..23

\* ------------------------------------------------------------- inputs
\* An attribute value: not base64, base64 of something that is no JSON of
\* the expected shape, or base64 of JSON holding val.
Attr(kind, val) == [kind |-> kind, val |-> val]

\* base64.StdEncoding.DecodeString reports an error
Base64Err(attr) == attr.kind = "BadBase64"

\* json.Unmarshal of the decoded bytes reports an error
JsonErr(attr) == attr.kind = "BadJSON"

Hours(n) == [i \in 1..n |-> i - 1]

Values(n, first) == [i \in 1..n |-> first - 517 * (i - 1)]

Timpris(data) == [Data |-> data]

OtherSeries == Timpris(<<42, 4242, 424242>>)

LabelAttrs(lens) ==
    {Attr("BadBase64", <<>>), Attr("BadJSON", <<>>)}
        \cup {Attr("JSON", Hours(n)) : n \in lens}

DatasetAttrs(lens, firsts) ==
    {Attr("BadBase64", <<>>), Attr("BadJSON", <<>>), Attr("JSON", <<>>)}
        \cup {Attr("JSON", <<Timpris(Values(n, f))>>) : n \in lens, f \in firsts}
        \cup {Attr("JSON", <<Timpris(Values(n, f)), OtherSeries>>) :
                  n \in {MaxLen}, f \in firsts}

Canvas(l, d) == [labels |-> l, datasets |-> d]

\* canvas elements of a page with short charts
ShortCanvases ==
    {Canvas(l, d) : l \in LabelAttrs({MaxLen}),
                    d \in DatasetAttrs(0..MaxLen, {1999})}

\* canvas elements carrying about a day of hourly prices
DayCanvases ==
    {Canvas(l, d) : l \in {Attr("JSON", Hours(HoursPerDay))},
                    d \in {Attr("JSON", <<Timpris(Values(n, f))>>) :
                              n \in (HoursPerDay - 1)..(HoursPerDay + MaxOver),
                              f \in {1999, 12345}}}

RECURSIVE SeqsUpTo(_, _)
SeqsUpTo(S, n) ==
    IF n = 0 THEN {<<>>}
    ELSE LET shorter == SeqsUpTo(S, n - 1) IN
         shorter \cup {Append(s, x) : s \in {q \in shorter : Len(q) = n - 1}, x \in S}

Pages == SeqsUpTo(ShortCanvases, MaxCanvas) \cup {<<c>> : c \in DayCanvases}

\* viper configuration: whether InfluxServer is an address NewHTTPClient
\* accepts, and MariaDSN ("" disables MariaDB)
Configs == [InfluxServerOk : BOOLEAN, MariaDSN : {"", "invalid", "valid"}]

VARIABLES
    pc,         \* position in main / run / the OnHTML callback
    outcome,    \* how the process ended: "running", "exit0", "exit1", "panic"
    cfg,        \* viper configuration
    page,       \* canvas elements of the page, in document order
    idx,        \* canvas element the collector is at (1-based)
    labels,     \* var labels []int
    prices,     \* var prices []Timpris
    db,         \* var db *sql.DB: "none", "nil", "open"
    useMariadb, \* var useMariadb bool
    defers,     \* deferred calls of the running callback, last deferred last
    res,        \* resources currently open: InfluxDB clients, DB handles, statements
    date,       \* year, month, day := time.Now().Date()
    bp,         \* points added to the batch
    hour,       \* loop index of range prices[0].Data
    sinks       \* what reached the sinks, in order: batch writes and row inserts

vars == <<pc, outcome, cfg, page, idx, labels, prices, db, useMariadb, defers,
          res, date, bp, hour, sinks>>

locals == <<labels, prices, db, useMariadb, defers, date, bp, hour>>

Init ==
    /\ pc = "main"
    /\ outcome = "running"
    /\ cfg \in Configs
    /\ page \in Pages
    /\ idx = 0
    /\ labels = <<>>
    /\ prices = <<>>
    /\ db = "none"
    /\ useMariadb = FALSE
    /\ defers = <<>>
    /\ res = [http |-> 0, db |-> 0, stmt |-> 0]
    /\ date = 0
    /\ bp = <<>>
    /\ hour = 0
    /\ sinks = <<>>


\* ------------------------------------------------- library behaviour
\* One deferred call: stmt.Close(), db.Close() or c.Close(), with the
\* receiver it was deferred with.
Deferred(fn, recv) == [fn |-> fn, recv |-> recv]

\* The effect of one deferred Close on the open resources.  Close on a nil
\* *sql.DB panics and closes nothing.
Close(call, r) ==
    CASE call.fn = "c.Close"    -> [r EXCEPT !.http = @ - 1]
      [] call.fn = "db.Close"   -> IF call.recv = "nil" THEN r
                                   ELSE [r EXCEPT !.db = @ - 1]
      [] call.fn = "stmt.Close" -> [r EXCEPT !.stmt = @ - 1]

\* Deferred calls run last deferred first.
RECURSIVE RunDefers(_, _)
RunDefers(stack, r) ==
    IF stack = <<>> THEN r
    ELSE RunDefers(SubSeq(stack, 1, Len(stack) - 1), Close(stack[Len(stack)], r))

Unwind_ExitOnError(stack, r, panicking) ==
    IF panicking THEN r ELSE RunDefers(stack, r)

\* Leaving the callback, by return or by panic, runs its deferred calls.
Unwind(stack, r, panicking) == RunDefers(stack, r)

\* client.NewBatchPoints accepts the precision when "1"+precision is a duration
PrecisionOk(precision) == precision \in {"ns", "us", "ms", "s", "m", "h"}

\* time.Date(year, month, day, hour, 0, 0, 0, loc): the instant, in hours;
\* an hour beyond 23 carries into the following day
TimeDate_Wrapped(day, h) == day * HoursPerDay + (h % HoursPerDay)

TimeDate(day, h) == day * HoursPerDay + h

\* the calendar date of an instant
DateOf(t) == t \div HoursPerDay

\* client.NewPoint: an error for a point without fields
NewPoint(name, tags, fields, t) ==
    [err  |-> DOMAIN fields = {},
     pt   |-> [name |-> name, tags |-> tags, fields |-> fields, time |-> t]]

\* int(price*100): truncation towards zero
Cents(price) == IF price >= 0 THEN price \div 10 ELSE -((-price) \div 10)

\* ------------------------------------------------- the callback's steps
thisCanvas == page[idx]

LabelsErr_Base64Only(e) == Base64Err(e.labels)

\* lines 142-149: either decoding step of data-labels failed
LabelsErr(e) == Base64Err(e.labels) \/ JsonErr(e.labels)

\* lines 155-162: either decoding step of data-datasets failed
PricesErr(e) == Base64Err(e.datasets) \/ JsonErr(e.datasets)

SelectedSeries_Last(p) == p[Len(p)].Data

\* prices[0].Data
SelectedSeries(p) == p[1].Data

LoopDone_WriteInLoop(h, data) == h >= 1 \/ h = Len(data)

\* the range loop has run over every value
LoopDone(h, data) == h = Len(data)

ExecAborts_BestEffort(use, ok) == FALSE

\* lines 230-233: a failed stmt.Exec panics
ExecAborts(use, ok) == use /\ ~ok

AddPoint_Overwrite(batch, pt) == <<pt>>

\* bp.AddPoint(pt)
AddPoint(batch, pt) == Append(batch, pt)

\* the tags and fields of the point for loop index h
Tags(h) == [hour |-> ToString(h), area |-> "SE3"]

Fields(price) == [value |-> price]

\* the arguments of stmt.Exec
Row(day, h, t, price) ==
    [date |-> day, hour |-> h, epoch |-> t, area |-> "SE3", price |-> Cents(price)]

InfluxWrite(k, batch, ok) == [sink |-> "influx", canvas |-> k, data |-> batch, ok |-> ok]

MariaExec(k, row, ok) == [sink |-> "mariadb", canvas |-> k, data |-> <<row>>, ok |-> ok]

ResetLocals ==
    /\ labels' = <<>>
    /\ prices' = <<>>
    /\ db' = "none"
    /\ useMariadb' = FALSE
    /\ defers' = <<>>
    /\ date' = 0
    /\ bp' = <<>>
    /\ hour' = 0

\* the callback returns: its deferred calls run, the collector goes on
Return ==
    /\ res' = Unwind(defers, res, FALSE)
    /\ idx' = idx + 1
    /\ pc' = "OnHTML"
    /\ outcome' = outcome
    /\ ResetLocals

\* the callback panics: its deferred calls run, the process dies
Panic ==
    /\ res' = Unwind(defers, res, TRUE)
    /\ idx' = idx
    /\ pc' = "done"
    /\ outcome' = "panic"
    /\ ResetLocals

\* lines 52-57: rootCmd.Execute() fails on bad flags, else calls run
Main ==
    /\ pc = "main"
    /\ \E flagsOk \in BOOLEAN :
         IF flagsOk THEN pc' = "run" /\ outcome' = outcome
         ELSE pc' = "done" /\ outcome' = "exit1"
    /\ UNCHANGED <<cfg, page, idx, res, sinks, locals>>

\* line 244: c.Visit; its error is dropped, on a failed fetch no callback runs
Visit ==
    /\ pc = "run"
    /\ \E fetched \in BOOLEAN :
         IF fetched THEN pc' = "OnHTML" /\ idx' = 1 /\ outcome' = outcome
         ELSE pc' = "done" /\ idx' = idx /\ outcome' = "exit0"
    /\ UNCHANGED <<cfg, page, res, sinks, locals>>

\* no canvas element is left: Visit, run and main return
VisitReturns ==
    /\ pc = "OnHTML"
    /\ idx > Len(page)
    /\ pc' = "done"
    /\ outcome' = "exit0"
    /\ UNCHANGED <<cfg, page, idx, res, sinks, locals>>

\* lines 140-149: decode labels, return on error
DecodeLabels ==
    /\ pc = "OnHTML"
    /\ idx <= Len(page)
    /\ IF LabelsErr(thisCanvas)
       THEN Return
       ELSE /\ labels' = thisCanvas.labels.val
            /\ pc' = "prices"
            /\ UNCHANGED <<outcome, idx, res, prices, db, useMariadb, defers,
                           date, bp, hour>>
    /\ UNCHANGED <<cfg, page, sinks>>

\* lines 153-162: decode prices, panic on error
DecodePrices ==
    /\ pc = "prices"
    /\ IF PricesErr(thisCanvas)
       THEN Panic
       ELSE /\ prices' = thisCanvas.datasets.val
            /\ pc' = "influx"
            /\ UNCHANGED <<outcome, idx, res, labels, db, useMariadb, defers,
                           date, bp, hour>>
    /\ UNCHANGED <<cfg, page, sinks>>

\* lines 166-175: client.NewHTTPClient, defer c.Close()
NewHTTPClient ==
    /\ pc = "influx"
    /\ IF ~cfg.InfluxServerOk
       THEN Panic
       ELSE /\ res' = [res EXCEPT !.http = @ + 1]
            /\ defers' = Append(defers, Deferred("c.Close", "open"))
            /\ pc' = "mariadb"
            /\ UNCHANGED <<outcome, idx, labels, prices, db, useMariadb,
                           date, bp, hour>>
    /\ UNCHANGED <<cfg, page, sinks>>

\* lines 181-184: sql.Open (its error dropped), defer db.Close()
SqlOpen ==
    /\ pc = "mariadb"
    /\ IF cfg.MariaDSN = ""
       THEN /\ pc' = "batch"
            /\ UNCHANGED <<res, db, useMariadb, defers>>
       ELSE LET handle == IF cfg.MariaDSN = "valid" THEN "open" ELSE "nil" IN
            /\ db' = handle
            /\ res' = IF handle = "open" THEN [res EXCEPT !.db = @ + 1] ELSE res
            /\ defers' = Append(defers, Deferred("db.Close", handle))
            /\ useMariadb' = TRUE
            /\ pc' = "prepare"
    /\ UNCHANGED <<outcome, cfg, page, idx, labels, prices, date, bp, hour, sinks>>

\* lines 185-189: db.Prepare, panic on error (and on a nil db), defer stmt.Close()
Prepare ==
    /\ pc = "prepare"
    /\ \E ok \in BOOLEAN :
         IF db = "nil" \/ ~ok
         THEN Panic
         ELSE /\ res' = [res EXCEPT !.stmt = @ + 1]
              /\ defers' = Append(defers, Deferred("stmt.Close", "open"))
              /\ pc' = "batch"
              /\ UNCHANGED <<outcome, idx, labels, prices, db, useMariadb,
                             date, bp, hour>>
    /\ UNCHANGED <<cfg, page, sinks>>

\* lines 192-204: NewBatchPoints, the time reference, prices[0] of the range
NewBatchPoints ==
    /\ pc = "batch"
    /\ IF ~PrecisionOk("h") \/ Len(prices) = 0
       THEN Panic
       ELSE /\ bp' = <<>>
            /\ date' = Today
            /\ hour' = 0
            /\ pc' = "loop"
            /\ UNCHANGED <<outcome, idx, res, labels, prices, db, useMariadb, defers>>
    /\ UNCHANGED <<cfg, page, sinks>>

\* lines 204-236: one iteration of the loop
LoopPoint ==
    /\ pc = "loop"
    /\ hour < Len(SelectedSeries(prices))
    /\ ~LoopDone(hour, SelectedSeries(prices))
    /\ LET price == SelectedSeries(prices)[hour + 1]
           t     == TimeDate(date, hour)
           new   == NewPoint("powerprices", Tags(hour), Fields(price), t)
       IN  IF new.err
           THEN Panic /\ sinks' = sinks
           ELSE \E ok \in (IF useMariadb THEN BOOLEAN ELSE {TRUE}) :
                  /\ sinks' = IF useMariadb
                              THEN Append(sinks, MariaExec(idx, Row(date, hour, t, price), ok))
                              ELSE sinks
                  /\ IF ExecAborts(useMariadb, ok)
                     THEN Panic
                     ELSE /\ bp' = AddPoint(bp, new.pt)
                          /\ hour' = hour + 1
                          /\ UNCHANGED <<pc, outcome, idx, res, labels, prices, db,
                                         useMariadb, defers, date>>
    /\ UNCHANGED <<cfg, page>>

\* lines 238-243: c.Write(bp), panic on error, else the callback returns
Write ==
    /\ pc = "loop"
    /\ LoopDone(hour, SelectedSeries(prices))
    /\ \E ok \in BOOLEAN :
         /\ sinks' = Append(sinks, InfluxWrite(idx, bp, ok))
         /\ IF ok THEN Return ELSE Panic
    /\ UNCHANGED <<cfg, page>>

Next ==
    \/ Main
    \/ Visit
    \/ VisitReturns
    \/ DecodeLabels
    \/ DecodePrices
    \/ NewHTTPClient
    \/ SqlOpen
    \/ Prepare
    \/ NewBatchPoints
    \/ LoopPoint
    \/ Write

Spec == Init /\ [][Next]_vars


\* ------------------------------------------------- vocabulary of the claims
Area == "SE3"

\* a payload that fails base64 decoding or structured-data decoding
Malformed(attr) == attr.kind # "JSON"

WellFormed(k) == ~Malformed(page[k].labels) /\ ~Malformed(page[k].datasets)

\* the callback has been entered for canvas element k
Reached(k) == k \in 1..Len(page) /\ (k < idx \/ (k = idx /\ pc # "OnHTML"))

\* the callback for canvas element k has returned
Returned(k) == k \in 1..Len(page) /\ k < idx

\* the values of the first series of canvas element k
FirstSeries(k) == page[k].datasets.val[1].Data

HasSeries(k) == WellFormed(k) /\ Len(page[k].datasets.val) >= 1

\* N: the number of values of the series selected from canvas element k
NumValues(k) == IF HasSeries(k) THEN Len(FirstSeries(k)) ELSE 0

SinkIdx(sink, k) == {i \in 1..Len(sinks) : sinks[i].sink = sink /\ sinks[i].canvas = k}

Persisted == {sinks[i].canvas : i \in 1..Len(sinks)}

\* the sink accepted event i, and the event carries at least one point or row
Stored(i) == sinks[i].ok /\ Len(sinks[i].data) >= 1

\* the point and the row the specification describes for hour i of canvas k
SpecPoint(k, i) ==
    [name |-> "powerprices",
     tags |-> [hour |-> ToString(i), area |-> Area],
     fields |-> [value |-> FirstSeries(k)[i + 1]],
     time |-> Today * HoursPerDay + i]

SpecRowHour(e) == e.data[1].hour

\* the j-th smallest element of a finite set of numbers
RECURSIVE Nth(_, _)
Nth(S, j) ==
    LET m == CHOOSE x \in S : \A y \in S : x <= y
    IN  IF j = 1 THEN m ELSE Nth(S \ {m}, j - 1)

\* ------------------------------------------------------------- claims

\* C1 (as stated): in every run in which a payload of a chart element the
\* run reached is malformed, nothing is persisted in either sink.
C1_Original ==
    (\E k \in 1..Len(page) : Reached(k) /\ ~WellFormed(k)) =>
        \A i \in 1..Len(sinks) : ~Stored(i)

\* C1 (amended): a canvas element with a malformed labels or datasets
\* payload contributes nothing to either sink: every batch write and every
\* row insert comes from an element whose two payloads both decoded.
C1_MalformedElementPersistsNothing ==
    \A i \in 1..Len(sinks) : WellFormed(sinks[i].canvas)

C1_Witness ==
    /\ \E k \in 1..Len(page) : Returned(k) /\ Malformed(page[k].labels)
    /\ \E k \in 1..Len(page) : Reached(k) /\ Malformed(page[k].datasets)
                                  /\ pc = "done" /\ outcome = "panic"
    /\ sinks = <<>>

\* C2: a decoded chart whose label count differs from the number of values
\* of its first series is rejected: nothing of it reaches either sink.
C2_ShapeMismatchPersistsNothing ==
    \A i \in 1..Len(sinks) :
        LET k == sinks[i].canvas IN
        Stored(i) => Len(page[k].labels.val) = NumValues(k)

\* C3 (as stated): time-series first, relational second: no row is inserted
\* for an element before that element's batch has been submitted.
C3_Original ==
    \A j \in 1..Len(sinks) :
        sinks[j].sink = "mariadb" =>
            \E i \in 1..(j - 1) :
                sinks[i].sink = "influx" /\ sinks[i].canvas = sinks[j].canvas

\* C3 (amended): relational first, time-series second: the batch of an
\* element is submitted only after every row insert of that element has
\* been executed, successfully, and no row of the element follows it.
C3_RelationalBeforeTimeSeries ==
    \A i \in 1..Len(sinks) :
        sinks[i].sink = "influx" =>
            LET k == sinks[i].canvas
                rows == SinkIdx("mariadb", k)
            IN  /\ \A j \in rows : j < i /\ sinks[j].ok
                /\ cfg.MariaDSN # "" => Cardinality(rows) = NumValues(k)

C3_Witness ==
    \E i \in 1..Len(sinks) :
        /\ sinks[i].sink = "influx"
        /\ NumValues(sinks[i].canvas) >= 2
        /\ Cardinality(SinkIdx("mariadb", sinks[i].canvas)) >= 2

\* C4 (as stated): once the sinks are being written for an element, its
\* batch is submitted exactly once with all N points whatever the outcome
\* of the row inserts.
C4_Original ==
    pc = "done" =>
        \A k \in 1..Len(page) :
            SinkIdx("mariadb", k) # {} =>
                /\ Cardinality(SinkIdx("influx", k)) = 1
                /\ \A i \in SinkIdx("influx", k) :
                       Len(sinks[i].data) = NumValues(k)

\* C4 (amended): the batch of an element is submitted at most once, always
\* with all N points, and only when no row insert of the element failed;
\* it is submitted exactly once when the callback returns and when all N
\* row inserts succeeded.  A failed insert leaves the element without batch.
C4_BatchOnceUnlessInsertFailed ==
    \A k \in 1..Len(page) :
        LET writes == SinkIdx("influx", k)
            rows   == SinkIdx("mariadb", k)
        IN  /\ Cardinality(writes) <= 1
            /\ \A i \in writes :
                   /\ Len(sinks[i].data) = NumValues(k)
                   /\ \A n \in 1..Len(sinks[i].data) :
                          sinks[i].data[n].fields.value = FirstSeries(k)[n]
            /\ (\E j \in rows : ~sinks[j].ok) => writes = {}
            /\ (Returned(k) /\ ~Malformed(page[k].labels)) =>
                   \E i \in writes : sinks[i].ok
            /\ (/\ pc = "done"
                /\ HasSeries(k)
                /\ rows # {}
                /\ Cardinality(rows) = NumValues(k)
                /\ \A j \in rows : sinks[j].ok) => writes # {}

\* relational success with time-series failure
C4_Witness ==
    /\ pc = "done"
    /\ outcome = "panic"
    /\ Len(sinks) >= 3
    /\ sinks[Len(sinks)].sink = "influx"
    /\ ~sinks[Len(sinks)].ok
    /\ \A j \in 1..(Len(sinks) - 1) : sinks[j].sink = "mariadb" /\ sinks[j].ok

\* C5: the connection and the statement are open only inside the callback
\* of an element whose extraction succeeded, and each is closed again on
\* every way out of the callback: between two elements and at the end of
\* the run none is open.
C5_RelationalResourcesReleased ==
    /\ (res.db > 0 \/ res.stmt > 0) =>
           /\ pc \in {"prepare", "batch", "loop"}
           /\ idx \in 1..Len(page)
           /\ WellFormed(idx)
    /\ res.stmt > 0 => res.db > 0
    /\ pc \in {"OnHTML", "done"} => res.db = 0 /\ res.stmt = 0

\* a failed insert ended the run, with connection and statement closed
C5_Witness ==
    /\ pc = "done"
    /\ outcome = "panic"
    /\ sinks # <<>>
    /\ sinks[Len(sinks)].sink = "mariadb"
    /\ ~sinks[Len(sinks)].ok
    /\ res.db = 0
    /\ res.stmt = 0

C7_ExtractionFailureIsFailureOutcome ==
    (/\ pc = "done"
     /\ idx >= 1
     /\ \/ Len(page) = 0
        \/ \E k \in 1..Len(page) : Reached(k) /\ ~WellFormed(k)) =>
        outcome # "exit0"

\* C8 (as stated): only the first canvas element is read and persisted: at
\* most one batch is submitted in a run and everything persisted comes from
\* the first element.
C8_Original ==
    /\ Persisted \subseteq {1}
    /\ Cardinality({i \in 1..Len(sinks) : sinks[i].sink = "influx"}) <= 1

\* C8 (amended): every canvas element is read, in document order; each
\* contributes at most one batch and at most one set of rows, derived from
\* the first series of that same element.
C8_OneBatchPerElement ==
    /\ \A i \in 1..Len(sinks) :
           LET k == sinks[i].canvas IN
           /\ k \in 1..Len(page)
           /\ k <= idx
           /\ \A j \in 1..i : sinks[j].canvas <= k
           /\ IF sinks[i].sink = "influx"
              THEN /\ Len(sinks[i].data) = NumValues(k)
                   /\ \A n \in 1..Len(sinks[i].data) :
                          sinks[i].data[n].fields.value = FirstSeries(k)[n]
              ELSE /\ SpecRowHour(sinks[i]) < NumValues(k)
                   /\ sinks[i].data[1].price =
                          Cents(FirstSeries(k)[SpecRowHour(sinks[i]) + 1])
    /\ \A k \in 1..Len(page) :
           /\ Cardinality(SinkIdx("influx", k)) <= 1
           /\ Cardinality(SinkIdx("mariadb", k)) <= NumValues(k)

\* two elements of one page were both persisted
C8_Witness ==
    /\ SinkIdx("influx", 1) # {}
    /\ SinkIdx("influx", 2) # {}
    /\ SinkIdx("mariadb", 2) # {}

\* C9: rows are inserted once per point in ascending hour order and a
\* failed insert is the last one: the hours with an executed insert are
\* 0..m-1 for some m <= N, and nothing reaches a sink after a failure.
C9_InsertsFailFast ==
    /\ \A k \in 1..Len(page) :
           LET rows == SinkIdx("mariadb", k) IN
           /\ Cardinality(rows) <= NumValues(k)
           /\ \A j \in 1..Cardinality(rows) :
                  LET e == sinks[Nth(rows, j)] IN
                  /\ e.data[1].hour = j - 1
                  /\ e.data[1].date = Today
                  /\ e.data[1].area = Area
                  /\ e.data[1].epoch = Today * HoursPerDay + (j - 1)
                  /\ ~e.ok => j = Cardinality(rows)
    /\ \A i \in 1..Len(sinks) :
           (sinks[i].sink = "mariadb" /\ ~sinks[i].ok) =>
               i = Len(sinks) /\ pc = "done" /\ outcome = "panic"

\* the insert for hour 5 failed: hours 0..5 were executed, none after it
C9_Witness ==
    /\ Len(sinks) = 6
    /\ sinks[6].sink = "mariadb"
    /\ ~sinks[6].ok
    /\ sinks[6].data[1].hour = 5
    /\ NumValues(sinks[6].canvas) >= HoursPerDay

\* C10: every point and row that reaches a sink has an hour within 0..23
\* and a timestamp on the reference date.
C10_HourWithinDay ==
    \A i \in 1..Len(sinks) :
        \A n \in 1..Len(sinks[i].data) :
            LET d == sinks[i].data[n] IN
            IF sinks[i].sink = "influx"
            THEN /\ d.tags.hour \in {ToString(h) : h \in 0..(HoursPerDay - 1)}
                 /\ DateOf(d.time) = Today
            ELSE /\ d.hour \in 0..(HoursPerDay - 1)
                 /\ DateOf(d.epoch) = d.date

====
